---- MODULE Spec2Model ----
(***************************************************************************)
(* Hotel reservation system (reservation_system.py): three JSON files,    *)
(* each meant to hold a list of records, behind load_data / save_data,    *)
(* and the Hotel, Customer and Reservation repositories built on them.    *)
(*                                                                         *)
(* A file is modelled by what is on disk: nothing, bytes that are not     *)
(* UTF-8, or a text, which is a sequence of JSON tokens.  json.dump and   *)
(* json.load are modelled as a token writer and a token parser.           *)
(***************************************************************************)
EXTENDS Integers, Sequences, FiniteSets, TLC

VARIABLES fs, lastOp, nOps, pc, req, loaded, hist

vars == <<fs, lastOp, nOps, pc, req, loaded, hist>>

(***************************************************************************)
(* Bounds and input sets                                                   *)
(***************************************************************************)
MaxOps == 2

Names == {"A", "B"}
Locations == {"X"}
RoomCounts == {1, 2}
Emails == {"e1", "e2"}

HOTEL_FILE == "hotels.json"
CUSTOMER_FILE == "customers.json"
RESERVATION_FILE == "reservations.json"

Paths == {HOTEL_FILE, CUSTOMER_FILE, RESERVATION_FILE}

(***************************************************************************)
(* Python values: str, int, list, dict.  One record shape for all of them *)
(* so that values of different Python types can be compared.  A dict is   *)
(* its members in insertion order.                                         *)
(***************************************************************************)
PyStr(s) == [t |-> "str", s |-> s, n |-> 0, items |-> <<>>]
PyInt(n) == [t |-> "int", s |-> "", n |-> n, items |-> <<>>]
PyList(xs) == [t |-> "list", s |-> "", n |-> 0, items |-> xs]
PyDict(ms) == [t |-> "dict", s |-> "", n |-> 0, items |-> ms]
Member(k, v) == [t |-> "member", s |-> k, n |-> 0, items |-> <<v>>]
PyNone == [t |-> "None", s |-> "", n |-> 0, items |-> <<>>]

\* d[k] for a dict d that has the key k
Item(d, k) ==
    LET i == CHOOSE j \in 1..Len(d.items) : d.items[j].s = k
    IN  d.items[i].items[1]

\* d[k] = v on a dict: an existing key keeps its place, a new key goes last
RECURSIVE DictSet(_, _, _)
DictSet(ms, k, v) ==
    IF ms = <<>> THEN <<Member(k, v)>>
    ELSE IF Head(ms).s = k THEN <<Member(k, v)>> \o Tail(ms)
    ELSE <<Head(ms)>> \o DictSet(Tail(ms), k, v)

(***************************************************************************)
(* JSON text as tokens.  "nl" is a line break followed by n spaces.       *)
(***************************************************************************)
Tok(k) == [k |-> k, s |-> "", n |-> 0]
TokStr(s) == [k |-> "str", s |-> s, n |-> 0]
TokNum(n) == [k |-> "num", s |-> "", n |-> n]
TokNl(n) == [k |-> "nl", s |-> "", n |-> n]

INDENT == 4

\* json.dump(value, file, indent=4): the text written for a value at a depth
RECURSIVE json_dump_at(_, _), dump_items(_, _, _)
json_dump_at(v, depth) ==
    CASE v.t = "str" -> <<TokStr(v.s)>>
      [] v.t = "int" -> <<TokNum(v.n)>>
      [] v.t = "member" ->
            <<TokStr(v.s), Tok(":")>> \o json_dump_at(v.items[1], depth)
      [] v.t = "list" ->
            IF v.items = <<>> THEN <<Tok("["), Tok("]")>>
            ELSE <<Tok("[")>> \o dump_items(v.items, depth + INDENT, TRUE)
                   \o <<TokNl(depth), Tok("]")>>
      [] v.t = "dict" ->
            IF v.items = <<>> THEN <<Tok("{"), Tok("}")>>
            ELSE <<Tok("{")>> \o dump_items(v.items, depth + INDENT, TRUE)
                   \o <<TokNl(depth), Tok("}")>>

dump_items(xs, depth, first) ==
    IF xs = <<>> THEN <<>>
    ELSE (IF first THEN <<>> ELSE <<Tok(",")>>)
           \o <<TokNl(depth)>> \o json_dump_at(Head(xs), depth)
           \o dump_items(Tail(xs), depth, FALSE)

json_dump(v) == json_dump_at(v, 0)

(***************************************************************************)
(* json.load: a recursive-descent parser of values, arrays and objects.   *)
(* A parse gives [ok, val, next]: next is the index after the value.      *)
(***************************************************************************)
KindAt(toks, i) == IF i <= Len(toks) THEN toks[i].k ELSE "eof"

ParseFail == [ok |-> FALSE, val |-> PyNone, next |-> 0]

RECURSIVE parse_value(_, _), parse_elements(_, _, _), parse_members(_, _, _)
parse_value(toks, i) ==
    CASE KindAt(toks, i) = "str" ->
            [ok |-> TRUE, val |-> PyStr(toks[i].s), next |-> i + 1]
      [] KindAt(toks, i) = "num" ->
            [ok |-> TRUE, val |-> PyInt(toks[i].n), next |-> i + 1]
      [] KindAt(toks, i) = "[" ->
            IF KindAt(toks, i + 1) = "]"
            THEN [ok |-> TRUE, val |-> PyList(<<>>), next |-> i + 2]
            ELSE parse_elements(toks, i + 1, <<>>)
      [] KindAt(toks, i) = "{" ->
            IF KindAt(toks, i + 1) = "}"
            THEN [ok |-> TRUE, val |-> PyDict(<<>>), next |-> i + 2]
            ELSE parse_members(toks, i + 1, <<>>)
      [] OTHER -> ParseFail

parse_elements(toks, i, acc) ==
    LET e == parse_value(toks, i)
    IN  IF ~e.ok THEN ParseFail
        ELSE IF KindAt(toks, e.next) = ","
             THEN parse_elements(toks, e.next + 1, Append(acc, e.val))
        ELSE IF KindAt(toks, e.next) = "]"
             THEN [ok |-> TRUE, val |-> PyList(Append(acc, e.val)),
                   next |-> e.next + 1]
        ELSE ParseFail

parse_members(toks, i, acc) ==
    IF KindAt(toks, i) # "str" \/ KindAt(toks, i + 1) # ":" THEN ParseFail
    ELSE LET e == parse_value(toks, i + 2)
         IN  IF ~e.ok THEN ParseFail
             ELSE IF KindAt(toks, e.next) = ","
                  THEN parse_members(toks, e.next + 1,
                                     DictSet(acc, toks[i].s, e.val))
             ELSE IF KindAt(toks, e.next) = "}"
                  THEN [ok |-> TRUE,
                        val |-> PyDict(DictSet(acc, toks[i].s, e.val)),
                        next |-> e.next + 1]
             ELSE ParseFail

IsSpace(tok) == tok.k = "nl"

\* json.load(file) on an open text file: read, decode as UTF-8, parse.
\* Gives [exc, val]; exc names the exception raised, "none" if none.
json_load(f) ==
    IF f.kind = "bytes" THEN [exc |-> "UnicodeDecodeError", val |-> PyNone]
    ELSE LET toks == SelectSeq(f.toks, LAMBDA tok : ~IsSpace(tok))
             r == parse_value(toks, 1)
         IN  IF r.ok /\ r.next = Len(toks) + 1
             THEN [exc |-> "none", val |-> r.val]
             ELSE [exc |-> "JSONDecodeError", val |-> PyNone]

(***************************************************************************)
(* Files                                                                   *)
(***************************************************************************)
Missing == [kind |-> "missing", toks |-> <<>>]
Undecodable == [kind |-> "bytes", toks |-> <<>>]
Text(toks) == [kind |-> "text", toks |-> toks]

\* the exception classes named by load_data's except clause
Caught == {"JSONDecodeError", "IOError"}

\* load_data(file_path): [exc, val]; val is the list returned
load_data(files, path) ==
    IF files[path].kind = "missing" THEN [exc |-> "none", val |-> <<>>]
    ELSE LET r == json_load(files[path])
         IN  IF r.exc = "none"
             THEN IF r.val.t = "list"
                  THEN [exc |-> "none", val |-> r.val.items]
                  ELSE [exc |-> "none", val |-> <<>>]
             ELSE IF r.exc \in Caught
                  THEN [exc |-> "none", val |-> <<>>]
                  ELSE [exc |-> r.exc, val |-> <<>>]

\* open(file_path, 'w'): the file is created or cut to nothing
open_w(files, path) == [files EXCEPT ![path] = Text(<<>>)]

\* a write at the start of a file: what the file held beyond the written
\* length stays (lengths counted in tokens)
write_at_start(old, new) == new \o SubSeq(old, Len(new) + 1, Len(old))

\* json.dump(data, file, indent=4) and the close of the file, on a file
\* opened by open_w: the text reaches the file from its start
dump_close(files, path, data) ==
    [files EXCEPT ![path] =
        Text(write_at_start(files[path].toks, json_dump(PyList(data))))]

\* save_data had it opened the file with mode 'a': the dump follows what
\* the file already holds
save_data_append_mode(files, path, data) ==
    [files EXCEPT ![path] =
        IF files[path].kind = "bytes" THEN Undecodable
        ELSE Text(files[path].toks \o json_dump(PyList(data)))]

\* save_data(file_path, data): the files afterwards
save_data(files, path, data) ==
    dump_close(open_w(files, path), path, data)

(***************************************************************************)
(* Hotel                                                                   *)
(***************************************************************************)
\* Hotel(name, location, rooms).to_dict(): the instance's __dict__
Hotel_to_dict(name, location, rooms) ==
    PyDict(<<Member("name", PyStr(name)),
             Member("location", PyStr(location)),
             Member("rooms", PyInt(rooms)),
             Member("available_rooms", PyInt(rooms))>>)

\* hotels.append(Hotel(name, location, rooms).to_dict())
hotels_append(hotels, name, location, rooms) ==
    Append(hotels, Hotel_to_dict(name, location, rooms))

\* a filter that drops only the first record of the name
RECURSIVE without_first_named(_, _)
without_first_named(records, name) ==
    IF records = <<>> THEN <<>>
    ELSE IF Item(Head(records), "name") = PyStr(name) THEN Tail(records)
    ELSE <<Head(records)>> \o without_first_named(Tail(records), name)

\* [h for h in hotels if h['name'] != name]
without_name(records, name) ==
    SelectSeq(records, LAMBDA h : Item(h, "name") # PyStr(name))

\* for r in records: if r['name'] == name: return r; return {}
RECURSIVE first_named(_, _)
first_named(records, name) ==
    IF records = <<>> THEN PyDict(<<>>)
    ELSE IF Item(Head(records), "name") = PyStr(name) THEN Head(records)
    ELSE first_named(Tail(records), name)

\* the outcome of a call: the files afterwards, the value returned, and the
\* exception that reached the caller ("none" if the call returned)
Returned(files, ret) == [fs |-> files, ret |-> ret, exc |-> "none"]
Raised(files, exc) == [fs |-> files, ret |-> PyNone, exc |-> exc]

\* create_hotel had it refused a name that is already stored
create_hotel_unique(files, name, location, rooms) ==
    LET hotels == load_data(files, HOTEL_FILE)
    IN  IF hotels.exc # "none" THEN Raised(files, hotels.exc)
        ELSE IF first_named(hotels.val, name) # PyDict(<<>>)
             THEN Returned(files, PyNone)
        ELSE Returned(save_data(files, HOTEL_FILE,
                          hotels_append(hotels.val, name, location, rooms)),
                      PyNone)

create_hotel(files, name, location, rooms) ==
    LET hotels == load_data(files, HOTEL_FILE)
    IN  IF hotels.exc # "none" THEN Raised(files, hotels.exc)
        ELSE Returned(save_data(files, HOTEL_FILE,
                          hotels_append(hotels.val, name, location, rooms)),
                      PyNone)

\* delete_hotel had it also dropped the reservations at the hotel
delete_hotel_cascade(files, name) ==
    LET hotels == load_data(files, HOTEL_FILE)
        reservations == load_data(files, RESERVATION_FILE)
    IN  IF hotels.exc # "none" THEN Raised(files, hotels.exc)
        ELSE IF reservations.exc # "none"
             THEN Raised(files, reservations.exc)
        ELSE Returned(
                save_data(
                    save_data(files, HOTEL_FILE,
                              without_name(hotels.val, name)),
                    RESERVATION_FILE,
                    SelectSeq(reservations.val,
                              LAMBDA r : Item(r, "hotel") # PyStr(name))),
                PyNone)

delete_hotel(files, name) ==
    LET hotels == load_data(files, HOTEL_FILE)
    IN  IF hotels.exc # "none" THEN Raised(files, hotels.exc)
        ELSE Returned(save_data(files, HOTEL_FILE,
                                without_name(hotels.val, name)),
                      PyNone)

get_hotel(files, name) ==
    LET hotels == load_data(files, HOTEL_FILE)
    IN  IF hotels.exc # "none" THEN Raised(files, hotels.exc)
        ELSE Returned(files, first_named(hotels.val, name))

(***************************************************************************)
(* Customer                                                                *)
(***************************************************************************)
Customer_to_dict(name, email) ==
    PyDict(<<Member("name", PyStr(name)), Member("email", PyStr(email))>>)

\* customers.append(Customer(name, email).to_dict())
customers_append(customers, name, email) ==
    Append(customers, Customer_to_dict(name, email))

create_customer(files, name, email) ==
    LET customers == load_data(files, CUSTOMER_FILE)
    IN  IF customers.exc # "none" THEN Raised(files, customers.exc)
        ELSE Returned(save_data(files, CUSTOMER_FILE,
                          customers_append(customers.val, name, email)),
                      PyNone)

delete_customer(files, name) ==
    LET customers == load_data(files, CUSTOMER_FILE)
    IN  IF customers.exc # "none" THEN Raised(files, customers.exc)
        ELSE Returned(save_data(files, CUSTOMER_FILE,
                                without_name(customers.val, name)),
                      PyNone)

get_customer(files, name) ==
    LET customers == load_data(files, CUSTOMER_FILE)
    IN  IF customers.exc # "none" THEN Raised(files, customers.exc)
        ELSE Returned(files, first_named(customers.val, name))

(***************************************************************************)
(* Reservation                                                             *)
(***************************************************************************)
Reservation_to_dict(customer, hotel) ==
    PyDict(<<Member("customer", PyStr(customer)),
             Member("hotel", PyStr(hotel))>>)

\* a filter that drops a reservation when either field matches
without_pair_either(reservations, customer, hotel) ==
    SelectSeq(reservations,
              LAMBDA r : ~(Item(r, "customer") = PyStr(customer)
                           \/ Item(r, "hotel") = PyStr(hotel)))

\* [r for r in reservations
\*    if not (r['customer'] == customer and r['hotel'] == hotel)]
without_pair(reservations, customer, hotel) ==
    SelectSeq(reservations,
              LAMBDA r : ~(Item(r, "customer") = PyStr(customer)
                           /\ Item(r, "hotel") = PyStr(hotel)))

\* reservations.append(Reservation(customer, hotel).to_dict())
reservations_append(reservations, customer, hotel) ==
    Append(reservations, Reservation_to_dict(customer, hotel))

\* create_reservation had it required the customer to be stored
create_reservation_checked(files, customer, hotel) ==
    LET reservations == load_data(files, RESERVATION_FILE)
        customers == load_data(files, CUSTOMER_FILE)
    IN  IF reservations.exc # "none" THEN Raised(files, reservations.exc)
        ELSE IF customers.exc # "none" THEN Raised(files, customers.exc)
        ELSE IF \A i \in 1..Len(customers.val) :
                    Item(customers.val[i], "name") # PyStr(customer)
             THEN Returned(files, PyNone)
        ELSE Returned(save_data(files, RESERVATION_FILE,
                          reservations_append(reservations.val,
                                              customer, hotel)),
                      PyNone)

create_reservation(files, customer, hotel) ==
    LET reservations == load_data(files, RESERVATION_FILE)
    IN  IF reservations.exc # "none" THEN Raised(files, reservations.exc)
        ELSE Returned(save_data(files, RESERVATION_FILE,
                          reservations_append(reservations.val,
                                              customer, hotel)),
                      PyNone)

cancel_reservation(files, customer, hotel) ==
    LET reservations == load_data(files, RESERVATION_FILE)
    IN  IF reservations.exc # "none" THEN Raised(files, reservations.exc)
        ELSE Returned(save_data(files, RESERVATION_FILE,
                          without_pair(reservations.val, customer, hotel)),
                      PyNone)

get_reservations(files) ==
    LET reservations == load_data(files, RESERVATION_FILE)
    IN  IF reservations.exc # "none" THEN Raised(files, reservations.exc)
        ELSE Returned(files, PyList(reservations.val))

(***************************************************************************)
(* Initial files: what may be on disk when a call is made.  Each file is  *)
(* absent, not UTF-8, empty, cut short by an interrupted write, a JSON    *)
(* object, or the dump of a stored list.                                   *)
(***************************************************************************)
HotelSeed ==
    <<Hotel_to_dict("A", "X", 1), Hotel_to_dict("B", "X", 2),
      Hotel_to_dict("A", "X", 2)>>

CustomerSeed ==
    <<Customer_to_dict("A", "e1"), Customer_to_dict("B", "e1"),
      Customer_to_dict("A", "e2")>>

ReservationSeed ==
    <<Reservation_to_dict("A", "A"), Reservation_to_dict("A", "B"),
      Reservation_to_dict("A", "A")>>

Seed(path) ==
    CASE path = HOTEL_FILE -> HotelSeed
      [] path = CUSTOMER_FILE -> CustomerSeed
      [] path = RESERVATION_FILE -> ReservationSeed

Truncated(toks) == SubSeq(toks, 1, Len(toks) - 1)

InitialFiles(path) ==
    { Missing,
      Undecodable,
      Text(<<>>),
      Text(Truncated(json_dump(PyList(Seed(path))))),
      Text(json_dump(PyDict(<<>>))),
      Text(json_dump(PyList(Seed(path)))) }

\* the lists the test fixture saves
TestData(path) ==
    { <<>> }
    \cup { <<Seed(path)[i]>> : i \in 1..3 }
    \cup { <<Seed(path)[i], Seed(path)[j]>> : i, j \in 1..3 }

(***************************************************************************)
(* Calls made one at a time                                                *)
(***************************************************************************)
NoOp ==
    [op |-> "none", a1 |-> "", a2 |-> "", n |-> 0, data |-> <<>>,
     pre |-> [p \in Paths |-> Missing], ret |-> PyNone, exc |-> "none"]

Callers == {1, 2}

Request(op, a1, a2, n) == [op |-> op, a1 |-> a1, a2 |-> a2, n |-> n]

Idle ==
    /\ pc = [c \in Callers |-> "off"]
    /\ req = [c \in Callers |-> Request("none", "", "", 0)]
    /\ loaded = [c \in Callers |-> <<>>]
    /\ hist = <<>>

\* the three files as the test fixture saves them
SeededFiles == [p \in Paths |-> Text(json_dump(PyList(Seed(p))))]

\* the seeded files, with at most one of them in another initial condition
Init ==
    /\ \E p \in Paths : \E f \in InitialFiles(p) :
            fs = [SeededFiles EXCEPT ![p] = f]
    /\ lastOp = NoOp
    /\ nOps = 0
    /\ Idle

\* one call: its outcome becomes the state, and the call is recorded
Call(op, a1, a2, n, data, out) ==
    /\ nOps < MaxOps
    /\ nOps' = nOps + 1
    /\ fs' = out.fs
    /\ lastOp' = [op |-> op, a1 |-> a1, a2 |-> a2, n |-> n, data |-> data,
                  pre |-> fs, ret |-> out.ret, exc |-> out.exc]
    /\ UNCHANGED <<pc, req, loaded, hist>>

CreateHotel ==
    \E name \in Names, location \in Locations, rooms \in RoomCounts :
        Call("create_hotel", name, location, rooms, <<>>,
             create_hotel(fs, name, location, rooms))

DeleteHotel ==
    \E name \in Names :
        Call("delete_hotel", name, "", 0, <<>>, delete_hotel(fs, name))

GetHotel ==
    \E name \in Names :
        Call("get_hotel", name, "", 0, <<>>, get_hotel(fs, name))

CreateCustomer ==
    \E name \in Names, email \in Emails :
        Call("create_customer", name, email, 0, <<>>,
             create_customer(fs, name, email))

DeleteCustomer ==
    \E name \in Names :
        Call("delete_customer", name, "", 0, <<>>, delete_customer(fs, name))

GetCustomer ==
    \E name \in Names :
        Call("get_customer", name, "", 0, <<>>, get_customer(fs, name))

CreateReservation ==
    \E customer \in Names, hotel \in Names :
        Call("create_reservation", customer, hotel, 0, <<>>,
             create_reservation(fs, customer, hotel))

CancelReservation ==
    \E customer \in Names, hotel \in Names :
        Call("cancel_reservation", customer, hotel, 0, <<>>,
             cancel_reservation(fs, customer, hotel))

GetReservations ==
    Call("get_reservations", "", "", 0, <<>>, get_reservations(fs))

\* save_data called directly, as the test fixture does
SaveData ==
    \E path \in Paths : \E data \in TestData(path) :
        Call("save_data", path, "", 0, data,
             Returned(save_data(fs, path, data), PyNone))

\* load_data called directly, as the tests do
LoadData ==
    \E path \in Paths :
        LET r == load_data(fs, path)
        IN  Call("load_data", path, "", 0, <<>>,
                 [fs |-> fs, ret |-> PyList(r.val), exc |-> r.exc])

Next ==
    \/ CreateHotel
    \/ DeleteHotel
    \/ GetHotel
    \/ CreateCustomer
    \/ DeleteCustomer
    \/ GetCustomer
    \/ CreateReservation
    \/ CancelReservation
    \/ GetReservations

Spec == Init /\ [][Next]_vars

\* the storage gateway called directly: only save_data and load_data
GatewayNext == SaveData \/ LoadData

SpecGateway == Init /\ [][GatewayNext]_vars

(***************************************************************************)
(* Two callers at once.  Nothing in the program locks a file, so to       *)
(* another caller a call that loads, changes the list and saves is three  *)
(* steps: its load_data, the open of its save_data, which empties the     *)
(* file, and the dump and close of its save_data, which write the text.   *)
(***************************************************************************)
FileOf(op) ==
    CASE op \in {"create_hotel", "delete_hotel", "get_hotel"} -> HOTEL_FILE
      [] op \in {"create_customer", "delete_customer", "get_customer"} ->
            CUSTOMER_FILE
      [] op \in {"create_reservation", "cancel_reservation",
                 "get_reservations"} -> RESERVATION_FILE

\* what a call does to the list it loaded, before it saves it
modify(r, records) ==
    CASE r.op = "create_hotel" -> hotels_append(records, r.a1, r.a2, r.n)
      [] r.op = "delete_hotel" -> without_name(records, r.a1)
      [] r.op = "create_customer" -> customers_append(records, r.a1, r.a2)
      [] r.op = "delete_customer" -> without_name(records, r.a1)
      [] r.op = "create_reservation" ->
            reservations_append(records, r.a1, r.a2)
      [] r.op = "cancel_reservation" -> without_pair(records, r.a1, r.a2)

\* a call that loads the file again on its way into save_data and changes
\* the list it finds then
begin_save_reload(files, r, records) ==
    [fs |-> open_w(files, FileOf(r.op)),
     data |-> modify(r, load_data(files, FileOf(r.op)).val)]

\* a call from its change of the loaded list to the open in save_data: the
\* files afterwards and the list that save_data is to dump
begin_save(files, r, records) ==
    [fs |-> open_w(files, FileOf(r.op)), data |-> modify(r, records)]

Requests ==
    {Request("create_hotel", name, location, rooms) :
        name \in Names, location \in Locations, rooms \in RoomCounts}
    \cup {Request("delete_hotel", name, "", 0) : name \in Names}
    \cup {Request("create_customer", name, "e2", 0) : name \in Names}
    \cup {Request("delete_customer", name, "", 0) : name \in Names}
    \cup {Request("create_reservation", name, "B", 0) : name \in Names}
    \cup {Request("cancel_reservation", name, "A", 0) : name \in Names}

RaceInit ==
    /\ \E p \in Paths : \E f \in InitialFiles(p) :
            fs = [SeededFiles EXCEPT ![p] = f]
    /\ lastOp = [NoOp EXCEPT !.pre = fs]
    /\ nOps = 0
    /\ pc = [c \in Callers |-> "ready"]
    /\ req = [c \in Callers |-> Request("none", "", "", 0)]
    /\ loaded = [c \in Callers |-> <<>>]
    /\ hist = <<>>

Event(ev, c) == [ev |-> ev, c |-> c]

\* caller c makes its call, which begins with load_data
RaceLoad(c) ==
    /\ pc[c] = "ready"
    /\ \E r \in Requests :
          LET l == load_data(fs, FileOf(r.op))
          IN  /\ req' = [req EXCEPT ![c] = r]
              /\ loaded' = [loaded EXCEPT ![c] = l.val]
              /\ pc' = [pc EXCEPT ![c] =
                            IF l.exc = "none" THEN "loaded" ELSE "raised"]
    /\ hist' = Append(hist, Event("load", c))
    /\ UNCHANGED <<fs, lastOp, nOps>>

\* caller c changes its list and enters save_data, which opens the file
RaceOpen(c) ==
    /\ pc[c] = "loaded"
    /\ LET b == begin_save(fs, req[c], loaded[c])
       IN  /\ fs' = b.fs
           /\ loaded' = [loaded EXCEPT ![c] = b.data]
    /\ pc' = [pc EXCEPT ![c] = "opened"]
    /\ hist' = Append(hist, Event("open", c))
    /\ UNCHANGED <<lastOp, nOps, req>>

\* caller c's save_data dumps its list and closes the file
RaceWrite(c) ==
    /\ pc[c] = "opened"
    /\ fs' = dump_close(fs, FileOf(req[c].op), loaded[c])
    /\ pc' = [pc EXCEPT ![c] = "done"]
    /\ hist' = Append(hist, Event("write", c))
    /\ UNCHANGED <<lastOp, nOps, req, loaded>>

RaceNext == \E c \in Callers : RaceLoad(c) \/ RaceOpen(c) \/ RaceWrite(c)

SpecRace == RaceInit /\ [][RaceNext]_vars

(***************************************************************************)
(* Vocabulary of the properties                                            *)
(***************************************************************************)
\* the file holds valid JSON whose top-level value is a list
HoldsList(f) ==
    /\ f.kind = "text"
    /\ LET r == json_load(f) IN r.exc = "none" /\ r.val.t = "list"

\* the file is there and does not hold a list: not UTF-8, invalid JSON, or
\* valid JSON of another shape
Corrupt(f) == f.kind # "missing" /\ ~HoldsList(f)

\* the file is there, is UTF-8 text, and does not hold a list
CorruptText(f) == f.kind = "text" /\ ~HoldsList(f)

\* the records a file holds: those of its list, none if it holds no list
RecordsIn(f) ==
    LET r == json_load(f)
    IN  IF f.kind = "text" /\ r.exc = "none" /\ r.val.t = "list"
        THEN r.val.items
        ELSE <<>>

Before(path) == RecordsIn(lastOp.pre[path])
After(path) == RecordsIn(fs[path])

\* the j-th smallest element of a set of indices
NthOf(S, j) == CHOOSE i \in S : Cardinality({k \in S : k <= i}) = j

\* after is before without the records at the indices D, order kept
RemovedExactly(before, after, D) ==
    LET K == (1..Len(before)) \ D
    IN  /\ Len(after) = Len(before) - Cardinality(D)
        /\ \A j \in 1..Len(after) : after[j] = before[NthOf(K, j)]

\* after is before with one record more at the end
AppendedOne(before, after) ==
    /\ Len(after) = Len(before) + 1
    /\ SubSeq(after, 1, Len(before)) = before

Named(records, name) ==
    {i \in 1..Len(records) : Item(records[i], "name") = PyStr(name)}

Paired(records, customer, hotel) ==
    {i \in 1..Len(records) :
        /\ Item(records[i], "customer") = PyStr(customer)
        /\ Item(records[i], "hotel") = PyStr(hotel)}

Creates == {"create_hotel", "create_customer", "create_reservation"}
Removes == {"delete_hotel", "delete_customer", "cancel_reservation"}
Reads == {"get_hotel", "get_customer", "get_reservations"}

\* the record a create call is to store
NewRecord ==
    CASE lastOp.op = "create_hotel" ->
            PyDict(<<Member("name", PyStr(lastOp.a1)),
                     Member("location", PyStr(lastOp.a2)),
                     Member("rooms", PyInt(lastOp.n)),
                     Member("available_rooms", PyInt(lastOp.n))>>)
      [] lastOp.op = "create_customer" ->
            PyDict(<<Member("name", PyStr(lastOp.a1)),
                     Member("email", PyStr(lastOp.a2))>>)
      [] lastOp.op = "create_reservation" ->
            PyDict(<<Member("customer", PyStr(lastOp.a1)),
                     Member("hotel", PyStr(lastOp.a2))>>)

(***************************************************************************)
(* C1.  Round trip: right after save_data(path, data), load_data(path)    *)
(* returns a list equal to data: same length, same records, same order.   *)
(***************************************************************************)
C1_RoundTrip ==
    lastOp.op = "save_data" =>
        load_data(fs, lastOp.a1) = [exc |-> "none", val |-> lastOp.data]

\* a list of two records was saved over a file that held something else
C1_Witness ==
    /\ lastOp.op = "save_data"
    /\ Len(lastOp.data) = 2
    /\ lastOp.pre[lastOp.a1].kind = "text"
    /\ RecordsIn(lastOp.pre[lastOp.a1]) # lastOp.data

(***************************************************************************)
(* C2.  load_data is total and fail-soft: whatever the file is, it does   *)
(* not raise; it returns the file's list when the file holds a list, and  *)
(* the empty list otherwise.                                               *)
(***************************************************************************)
C2_LoadTotal ==
    lastOp.op = "load_data" =>
        /\ lastOp.exc = "none"
        /\ lastOp.ret = PyList(Before(lastOp.a1))

\* the same, for a file that is missing or is UTF-8 text
C2_LoadFailSoftOnText ==
    lastOp.op = "load_data" /\ lastOp.pre[lastOp.a1].kind # "bytes" =>
        /\ lastOp.exc = "none"
        /\ lastOp.ret = PyList(Before(lastOp.a1))

(***************************************************************************)
(* C3.  create_hotel(name, location, rooms) on a hotel file holding a     *)
(* list of n records leaves a list of n + 1 records: the n prior records  *)
(* unchanged and in order, then the new record, with the name and         *)
(* location given and rooms = available_rooms = the rooms given.  A       *)
(* hotel of the same name already stored changes nothing in this.         *)
(***************************************************************************)
C3_CreateHotelAppends ==
    lastOp.op = "create_hotel" /\ HoldsList(lastOp.pre[HOTEL_FILE]) =>
        LET before == Before(HOTEL_FILE)
            after == After(HOTEL_FILE)
            new == after[Len(before) + 1]
        IN  /\ lastOp.exc = "none"
            /\ HoldsList(fs[HOTEL_FILE])
            /\ AppendedOne(before, after)
            /\ Item(new, "name") = PyStr(lastOp.a1)
            /\ Item(new, "location") = PyStr(lastOp.a2)
            /\ Item(new, "rooms") = PyInt(lastOp.n)
            /\ Item(new, "available_rooms") = PyInt(lastOp.n)

\* a hotel was created under a name that was already stored
C3_Witness ==
    /\ lastOp.op = "create_hotel"
    /\ HoldsList(lastOp.pre[HOTEL_FILE])
    /\ Named(Before(HOTEL_FILE), lastOp.a1) # {}
    /\ Len(After(HOTEL_FILE)) = Len(Before(HOTEL_FILE)) + 1

(***************************************************************************)
(* C4.  create_customer and create_reservation append exactly one record  *)
(* at the end of their own collection: the count grows by one, the prior  *)
(* records are unchanged, and the new record is the last.  Neither an     *)
(* identical stored record nor a missing customer or hotel prevents it.   *)
(***************************************************************************)
C4_CreateAppendsOne ==
    /\ lastOp.op \in {"create_customer", "create_reservation"}
    /\ lastOp.pre[FileOf(lastOp.op)].kind # "bytes"
    => LET before == Before(FileOf(lastOp.op))
           after == After(FileOf(lastOp.op))
       IN  /\ lastOp.exc = "none"
           /\ HoldsList(fs[FileOf(lastOp.op)])
           /\ AppendedOne(before, after)
           /\ after[Len(before) + 1] = NewRecord

\* a reservation identical to a stored one was created for a customer that
\* is not stored
C4_Witness ==
    /\ lastOp.op = "create_reservation"
    /\ Paired(Before(RESERVATION_FILE), lastOp.a1, lastOp.a2) # {}
    /\ Named(After(CUSTOMER_FILE), lastOp.a1) = {}
    /\ Len(After(RESERVATION_FILE)) = Len(Before(RESERVATION_FILE)) + 1

(***************************************************************************)
(* C5.  cancel_reservation(customer, hotel) removes every stored          *)
(* reservation whose customer and hotel both equal the arguments and      *)
(* keeps every other one, in the order they had; the count drops by the   *)
(* number of matching records.                                             *)
(***************************************************************************)
C5_CancelRemovesAllMatching ==
    /\ lastOp.op = "cancel_reservation"
    /\ lastOp.pre[RESERVATION_FILE].kind # "bytes"
    => LET before == Before(RESERVATION_FILE)
           after == After(RESERVATION_FILE)
       IN  /\ lastOp.exc = "none"
           /\ HoldsList(fs[RESERVATION_FILE])
           /\ RemovedExactly(before, after,
                             Paired(before, lastOp.a1, lastOp.a2))

\* two duplicates were cancelled and a reservation of the same customer at
\* another hotel was kept
C5_Witness ==
    /\ lastOp.op = "cancel_reservation"
    /\ Cardinality(Paired(Before(RESERVATION_FILE), lastOp.a1, lastOp.a2))
         = 2
    /\ \E i \in 1..Len(After(RESERVATION_FILE)) :
          /\ Item(After(RESERVATION_FILE)[i], "customer") = PyStr(lastOp.a1)
          /\ Item(After(RESERVATION_FILE)[i], "hotel") # PyStr(lastOp.a2)

(***************************************************************************)
(* C6.  delete_hotel(name) and delete_customer(name) remove every stored  *)
(* record of that name and keep all others unchanged and in order; no     *)
(* record of that name is stored afterwards; deleting a name that is not  *)
(* stored leaves the collection as it was.                                 *)
(***************************************************************************)
C6_DeleteRemovesAllNamed ==
    /\ lastOp.op \in {"delete_hotel", "delete_customer"}
    /\ lastOp.pre[FileOf(lastOp.op)].kind # "bytes"
    => LET before == Before(FileOf(lastOp.op))
           after == After(FileOf(lastOp.op))
       IN  /\ lastOp.exc = "none"
           /\ HoldsList(fs[FileOf(lastOp.op)])
           /\ RemovedExactly(before, after, Named(before, lastOp.a1))
           /\ Named(after, lastOp.a1) = {}
           /\ (Named(before, lastOp.a1) = {} => after = before)

\* a name stored twice was deleted and a record of another name was kept
C6_Witness ==
    /\ lastOp.op \in {"delete_hotel", "delete_customer"}
    /\ Cardinality(Named(Before(FileOf(lastOp.op)), lastOp.a1)) = 2
    /\ Len(After(FileOf(lastOp.op))) = 1

(***************************************************************************)
(* C7.  get_hotel(name) and get_customer(name) return the first record in *)
(* file order with that name, and {} when no stored record has it, also   *)
(* when the file is missing or corrupt.                                    *)
(***************************************************************************)
FirstNamedOrEmpty(records, name) ==
    IF Named(records, name) = {} THEN PyDict(<<>>)
    ELSE records[NthOf(Named(records, name), 1)]

C7_GetFirstOrEmpty ==
    lastOp.op \in {"get_hotel", "get_customer"} =>
        /\ lastOp.exc = "none"
        /\ lastOp.ret = FirstNamedOrEmpty(Before(FileOf(lastOp.op)), lastOp.a1)

\* the same, for a file that is missing or is UTF-8 text
C7_GetFirstOrEmptyOnText ==
    /\ lastOp.op \in {"get_hotel", "get_customer"}
    /\ lastOp.pre[FileOf(lastOp.op)].kind # "bytes"
    => /\ lastOp.exc = "none"
       /\ lastOp.ret = FirstNamedOrEmpty(Before(FileOf(lastOp.op)), lastOp.a1)

(***************************************************************************)
(* C8.  Lost update: two callers each make a load-change-save call on the *)
(* same file and both load before either saves.  Then both calls return   *)
(* without error, and the file ends as the call that saved last makes it  *)
(* from the list both loaded: the other call's change is not in it.       *)
(***************************************************************************)
\* both calls are over, on the same file, and both loaded before either
\* entered save_data
BothLoadedFirst ==
    /\ Len(hist) = 6
    /\ hist[1].ev = "load"
    /\ hist[2].ev = "load"
    /\ FileOf(req[1].op) = FileOf(req[2].op)

\* the file holds what the caller whose save_data ended last makes of the
\* list both loaded
LastWriterWins ==
    LET last == hist[6].c
        f == FileOf(req[last].op)
    IN  /\ \A c \in Callers : pc[c] = "done"
        /\ HoldsList(fs[f])
        /\ RecordsIn(fs[f]) = modify(req[last], RecordsIn(lastOp.pre[f]))

\* C8 as stated, whatever the order of the steps of the two save_data calls
C8_LastWriterWins == BothLoadedFirst => LastWriterWins

\* the first save_data returned before the second opened the file
SavesApart == hist[3].c = hist[4].c

\* C8, amended: the same, when in addition the two save_data calls do not
\* overlap, the first returning before the second opens the file
C8_LastWriterWinsSavesApart ==
    BothLoadedFirst /\ SavesApart => LastWriterWins

\* two hotels were created at once, the saves one after the other, and only
\* the hotel saved last is stored
C8_Witness ==
    /\ BothLoadedFirst
    /\ SavesApart
    /\ \A c \in Callers : req[c].op = "create_hotel"
    /\ HoldsList(lastOp.pre[HOTEL_FILE])
    /\ req[1] # req[2]
    /\ \A i \in 1..Len(RecordsIn(fs[HOTEL_FILE])) :
          RecordsIn(fs[HOTEL_FILE])[i]
            # Hotel_to_dict(req[hist[3].c].a1, req[hist[3].c].a2,
                            req[hist[3].c].n)
    /\ Len(RecordsIn(fs[HOTEL_FILE]))
         = Len(RecordsIn(lastOp.pre[HOTEL_FILE])) + 1

(***************************************************************************)
(* C9.  After corruption: when the backing file is corrupt, a create      *)
(* leaves a list of exactly the one new record, a delete or cancel leaves *)
(* the empty list; no error reaches the caller and the file holds a list  *)
(* afterwards.                                                             *)
(***************************************************************************)
C9_OverwriteAfterCorruption ==
    /\ lastOp.op \in Creates \cup Removes
    /\ Corrupt(lastOp.pre[FileOf(lastOp.op)])
    => /\ lastOp.exc = "none"
       /\ HoldsList(fs[FileOf(lastOp.op)])
       /\ After(FileOf(lastOp.op))
            = IF lastOp.op \in Creates THEN <<NewRecord>> ELSE <<>>

\* the same, for a corrupt file that is UTF-8 text
C9_OverwriteAfterCorruptText ==
    /\ lastOp.op \in Creates \cup Removes
    /\ CorruptText(lastOp.pre[FileOf(lastOp.op)])
    => /\ lastOp.exc = "none"
       /\ HoldsList(fs[FileOf(lastOp.op)])
       /\ After(FileOf(lastOp.op))
            = IF lastOp.op \in Creates THEN <<NewRecord>> ELSE <<>>

(***************************************************************************)
(* C10.  Frame: a repository call writes no file but its own, and        *)
(* get_hotel, get_customer and get_reservations write none.  So deleting  *)
(* a hotel or a customer leaves the reservations as they were, and a      *)
(* stored reservation can name a hotel that is no longer stored.          *)
(***************************************************************************)
Written == IF lastOp.op \in Reads THEN {} ELSE {FileOf(lastOp.op)}

C10_Frame ==
    lastOp.op # "none" => \A p \in Paths \ Written : fs[p] = lastOp.pre[p]

\* a hotel was deleted and a reservation still names it
C10_Witness ==
    /\ lastOp.op = "delete_hotel"
    /\ Named(Before(HOTEL_FILE), lastOp.a1) # {}
    /\ Named(After(HOTEL_FILE), lastOp.a1) = {}
    /\ \E i \in 1..Len(After(RESERVATION_FILE)) :
          Item(After(RESERVATION_FILE)[i], "hotel") = PyStr(lastOp.a1)

====
